---- MODULE Spec2Model ----
(***************************************************************************)
(* Model of fastq_utils: the R1 filename pattern, get_sample_id_from_r1,   *)
(* get_rN_fastq, find_r1_fastq_files and the find_fastq_files generator.   *)
(*                                                                         *)
(* A filename is a sequence of one-character strings; a path is a sequence *)
(* of components (each a filename), its name being the last component.     *)
(***************************************************************************)
EXTENDS Integers, Sequences, FiniteSets

VARIABLES
    fs,             \* filesystem: path -> "file" | "dir"
    directories,    \* find_fastq_files argument
    n,              \* find_fastq_files argument
    verbose,        \* find_fastq_files argument
    pc,             \* position of the generator
    dir_idx,        \* index of the directory being walked
    walk,           \* the glob: directories still to be listed, next first
    listing,        \* the glob: the directory whose entries are being passed
    pending,        \* the glob: entries of that listing not passed yet
    r1_fastq_file,  \* loop variable of find_fastq_files
    yielded,        \* the groups yielded so far, in order
    stdout,         \* everything printed so far
    emitted,        \* what the last loop iteration printed
    iterations,     \* how many R1 files the loop has taken so far
    caller_steps,   \* how often the caller has changed the filesystem
    fn_op,          \* pattern-function calls: the last call made
    fn_path,        \* its path argument
    fn_n,           \* its n argument
    fn_result,      \* what it returned or raised
    fn_prev         \* the result of the call before it

vars == <<fs, directories, n, verbose, pc, dir_idx, walk, listing, pending,
          r1_fastq_file, yielded, stdout, emitted, iterations, caller_steps,
          fn_op, fn_path, fn_n, fn_result, fn_prev>>

grouper_vars == <<fs, directories, n, verbose, pc, dir_idx, walk, listing,
                  pending, r1_fastq_file, yielded, stdout, emitted,
                  iterations, caller_steps>>

fn_vars == <<fn_op, fn_path, fn_n, fn_result, fn_prev>>

----------------------------------------------------------------------------
(* Bounds *)

MaxN == 11
MaxPrefixPieces == 1
MaxGroupN == 3
MaxDirs == 2
MaxCallerSteps == 1

----------------------------------------------------------------------------
(* Text *)

EXT_FQ == <<".", "f", "q">>
EXT_FASTQ == <<".", "f", "a", "s", "t", "q">>
EXT_GZ == <<".", "g", "z">>
NEWLINE == "\n"

DigitChar(d) ==
    CASE d = 0 -> "0" [] d = 1 -> "1" [] d = 2 -> "2" [] d = 3 -> "3"
      [] d = 4 -> "4" [] d = 5 -> "5" [] d = 6 -> "6" [] d = 7 -> "7"
      [] d = 8 -> "8" [] d = 9 -> "9"

RECURSIVE NatToStr(_)
NatToStr(k) ==
    IF k < 10 THEN <<DigitChar(k)>>
    ELSE NatToStr(k \div 10) \o <<DigitChar(k % 10)>>

\* the text an f-string puts for {n}
IntToStr(k) == IF k < 0 THEN <<"-">> \o NatToStr(0 - k) ELSE NatToStr(k)

StartsWithAt(s, i, lit) ==
    /\ i >= 1
    /\ i + Len(lit) - 1 <= Len(s)
    /\ \A k \in 1..Len(lit) : s[i + k - 1] = lit[k]

----------------------------------------------------------------------------
\* FASTQ_R1_PATTERN: group 1 is any text without a newline, greedy; then an
\* underscore; group 2 an optional R; group 3 the digit 1; group 4 the
\* extension .fq or .fastq with an optional .gz

NoMatch == [found |-> FALSE, start |-> 0, end |-> 0,
            g1 |-> <<>>, g2 |-> <<>>, g4 |-> <<>>]

\* group 4 at position i: its text, <<>> if it does not match there
ExtensionAt(s, i) ==
    LET base == IF StartsWithAt(s, i, EXT_FQ) THEN EXT_FQ
                ELSE IF StartsWithAt(s, i, EXT_FASTQ) THEN EXT_FASTQ
                ELSE <<>>
    IN  IF base = <<>> THEN <<>>
        ELSE IF StartsWithAt(s, i + Len(base), EXT_GZ) THEN base \o EXT_GZ
        ELSE base

\* the pattern after group 1, at position p; group 1 began at start
TailAt(s, start, p) ==
    IF ~StartsWithAt(s, p, <<"_">>) THEN NoMatch
    ELSE LET g2  == IF StartsWithAt(s, p + 1, <<"R", "1">>)
                       /\ ExtensionAt(s, p + 3) # <<>>
                    THEN <<"R">> ELSE <<>>
             one == p + 1 + Len(g2)
             g4  == ExtensionAt(s, one + 1)
         IN  IF StartsWithAt(s, one, <<"1">>) /\ g4 # <<>>
             THEN [found |-> TRUE, start |-> start, end |-> one + 1 + Len(g4),
                   g1 |-> SubSeq(s, start, p - 1), g2 |-> g2, g4 |-> g4]
             ELSE NoMatch

\* the positions group 1 can end before: it never crosses a newline
PrefixEnds(s, start) ==
    {p \in start..Len(s) : \A k \in start..(p - 1) : s[k] # NEWLINE}

\* the pattern anchored at start; group 1 is greedy, so the last tail wins
PatternMatchAt(s, start) ==
    LET ends == {p \in PrefixEnds(s, start) : TailAt(s, start, p).found}
    IN  IF ends = {} THEN NoMatch
        ELSE TailAt(s, start, CHOOSE p \in ends : \A q \in ends : q <= p)

\* FASTQ_R1_PATTERN.match(name)
PatternMatch(name) == PatternMatchAt(name, 1)

\* FASTQ_R1_PATTERN.sub of group 1: every match, left to right, is
\* replaced, and the text between matches is kept
RECURSIVE SubGroup1From(_, _)
SubGroup1From(s, pos) ==
    IF pos > Len(s) THEN <<>>
    ELSE LET m == PatternMatchAt(s, pos)
         IN  IF m.found THEN m.g1 \o SubGroup1From(s, m.end)
             ELSE <<s[pos]>> \o SubGroup1From(s, pos + 1)

\* FASTQ_R1_PATTERN.sub of group 1, underscore, group 2, n, group 4
RECURSIVE SubReadNumberFrom(_, _, _)
SubReadNumberFrom(s, k, pos) ==
    IF pos > Len(s) THEN <<>>
    ELSE LET m == PatternMatchAt(s, pos)
         IN  IF m.found
             THEN m.g1 \o <<"_">> \o m.g2 \o IntToStr(k) \o m.g4
                  \o SubReadNumberFrom(s, k, m.end)
             ELSE <<s[pos]>> \o SubReadNumberFrom(s, k, pos + 1)

----------------------------------------------------------------------------
(* Paths *)

PathName(path) == IF path = <<>> THEN <<>> ELSE path[Len(path)]
PathParent(path) == IF path = <<>> THEN <<>> ELSE SubSeq(path, 1, Len(path) - 1)
WithName(path, name) == PathParent(path) \o <<name>>

----------------------------------------------------------------------------
(* Pattern functions *)

Returned(v) == [tag |-> "ok", value |-> v, message |-> <<>>]
ValueError(path) ==
    [tag |-> "ValueError", value |-> <<>>,
     message |-> <<"Path did not match R1 FASTQ pattern: ", path>>]
NoResult == [tag |-> "none", value |-> <<>>, message |-> <<>>]

get_sample_id_from_r1(file_path) ==
    IF ~PatternMatch(PathName(file_path)).found THEN ValueError(file_path)
    ELSE Returned(SubGroup1From(PathName(file_path), 1))

\* get_rN_fastq with group 2 left out of the replacement
RECURSIVE SubReadNumberNoLetterFrom(_, _, _)
SubReadNumberNoLetterFrom(s, k, pos) ==
    IF pos > Len(s) THEN <<>>
    ELSE LET m == PatternMatchAt(s, pos)
         IN  IF m.found
             THEN m.g1 \o <<"_">> \o IntToStr(k) \o m.g4
                  \o SubReadNumberNoLetterFrom(s, k, m.end)
             ELSE <<s[pos]>> \o SubReadNumberNoLetterFrom(s, k, pos + 1)

get_rN_fastq_without_letter(file_path, k) ==
    IF ~PatternMatch(PathName(file_path)).found THEN ValueError(file_path)
    ELSE Returned(WithName(file_path,
                           SubReadNumberNoLetterFrom(PathName(file_path), k, 1)))

\* get_rN_fastq returning the bare new filename, the parent lost
get_rN_fastq_without_parent(file_path, k) ==
    IF ~PatternMatch(PathName(file_path)).found THEN ValueError(file_path)
    ELSE Returned(<<SubReadNumberFrom(PathName(file_path), k, 1)>>)

get_rN_fastq(file_path, k) ==
    IF ~PatternMatch(PathName(file_path)).found THEN ValueError(file_path)
    ELSE Returned(WithName(file_path,
                           SubReadNumberFrom(PathName(file_path), k, 1)))

----------------------------------------------------------------------------
(* Calls of the pattern functions *)

\* the filenames the calls are tried on: prefix, underscore, optional R, read
\* digit, optional lane block, extension, optional trailing text
PrefixPieces == {<<"b">>, <<"_", "1">> \o EXT_FQ, <<NEWLINE>>}

RECURSIVE Prefixes(_)
Prefixes(k) ==
    IF k = 0 THEN {<<"a">>}
    ELSE Prefixes(k - 1)
         \cup {p \o q : p \in Prefixes(k - 1), q \in PrefixPieces}

Letters == {<<>>, <<"R">>}
ReadDigits == {"1", "2"}
LaneBlocks == {<<>>, <<"_", "0", "0", "1">>, <<"_", "1">>}
Extensions == {EXT_FQ, EXT_FASTQ, EXT_FQ \o EXT_GZ, EXT_FASTQ \o EXT_GZ}
Endings == Extensions \cup {<<".", "t", "x", "t">>}
Trailers == {<<>>, <<".", "m", "d", "5">>, <<"_", "2">> \o EXT_FQ,
             <<NEWLINE, "b", "_", "1">> \o EXT_FQ}

InputNames ==
    {p \o <<"_">> \o r \o <<d>> \o l \o e \o t :
        p \in Prefixes(MaxPrefixPieces), r \in Letters, d \in ReadDigits,
        l \in LaneBlocks, e \in Endings, t \in Trailers}

InputParents == {<<>>, <<<<"p", "a", "t", "h">>, <<"t", "o">>>>}

InputPaths == {parent \o <<name>> : parent \in InputParents, name \in InputNames}

GrouperIdle ==
    /\ fs = <<>>
    /\ directories = <<>>
    /\ n = 0
    /\ verbose = FALSE
    /\ pc = "idle"
    /\ dir_idx = 0
    /\ walk = <<>>
    /\ listing = <<>>
    /\ pending = {}
    /\ r1_fastq_file = <<>>
    /\ yielded = <<>>
    /\ stdout = <<>>
    /\ emitted = <<>>
    /\ iterations = 0
    /\ caller_steps = 0

FnIdle ==
    /\ fn_op = "idle"
    /\ fn_path = <<>>
    /\ fn_n = 0
    /\ fn_result = NoResult
    /\ fn_prev = NoResult

InitFn ==
    /\ GrouperIdle
    /\ fn_op = "none"
    /\ fn_path \in InputPaths
    /\ fn_n = 0
    /\ fn_result = NoResult
    /\ fn_prev = NoResult

\* FASTQ_R1_PATTERN.match(file_path.name), as every user of the pattern asks
MatchR1 ==
    /\ fn_op = "none"
    /\ fn_op' = "match"
    /\ fn_result' = Returned(PatternMatch(PathName(fn_path)).found)
    /\ UNCHANGED <<fn_path, fn_n, fn_prev>>
    /\ UNCHANGED grouper_vars

CallGetSampleIdFromR1 ==
    /\ fn_op = "none"
    /\ fn_op' = "get_sample_id_from_r1"
    /\ fn_result' = get_sample_id_from_r1(fn_path)
    /\ UNCHANGED <<fn_path, fn_n, fn_prev>>
    /\ UNCHANGED grouper_vars

CallGetRNFastq ==
    /\ fn_op = "none"
    /\ \E k \in 1..MaxN :
        /\ fn_n' = k
        /\ fn_result' = get_rN_fastq(fn_path, k)
    /\ fn_op' = "get_rN_fastq"
    /\ UNCHANGED <<fn_path, fn_prev>>
    /\ UNCHANGED grouper_vars

\* the caller hands the path it got back to get_rN_fastq with n = 1
CallGetRNFastqOfResult ==
    /\ fn_op = "get_rN_fastq"
    /\ fn_result.tag = "ok"
    /\ fn_op' = "get_rN_fastq_of_result"
    /\ fn_prev' = fn_result
    /\ fn_result' = get_rN_fastq(fn_result.value, 1)
    /\ UNCHANGED <<fn_path, fn_n>>
    /\ UNCHANGED grouper_vars

NextFn ==
    \/ MatchR1
    \/ CallGetSampleIdFromR1
    \/ CallGetRNFastq
    \/ CallGetRNFastqOfResult

SpecFn == InitFn /\ [][NextFn]_vars

----------------------------------------------------------------------------
(* The filesystem *)

IsFile(path) == path \in DOMAIN fs /\ fs[path] = "file"
IsDir(path) == path \in DOMAIN fs /\ fs[path] = "dir"

IsUnder(path, directory) ==
    /\ Len(path) > Len(directory)
    /\ SubSeq(path, 1, Len(directory)) = directory

\* scandir(directory): the entries of the directory itself, as they are now
Children(directory) ==
    {path \in DOMAIN fs :
        Len(path) = Len(directory) + 1 /\ PathParent(path) = directory}

\* a glob that goes into no subdirectory
NoSubdirectories(directory) == {}

\* the entries of the directory the recursive glob goes into
Subdirectories(directory) == {path \in Children(directory) : IsDir(path)}

\* the orders scandir may give the entries in
RECURSIVE Orderings(_)
Orderings(S) ==
    IF S = {} THEN {<<>>}
    ELSE UNION {{<<x>> \o o : o \in Orderings(S \ {x})} : x \in S}

\* the test of find_r1_fastq_files on an entry, on the filesystem as it is now
IsR1FastqFile(path) == IsFile(path) /\ PatternMatch(PathName(path)).found

----------------------------------------------------------------------------
(* find_fastq_files *)

GROUPED_FASTQ_COLOR == "01;32m"
UNGROUPED_COLOR == "01;31m"

GroupedHeader(k) == [style |-> GROUPED_FASTQ_COLOR, count |-> k, path |-> <<>>]
UngroupedHeader == [style |-> UNGROUPED_COLOR, count |-> 0, path |-> <<>>]
PathLine(path) == [style |-> "", count |-> 0, path |-> path]

\* the results of get_rN_fastq(r1, i) for i in range(1, n + 1)
Siblings(r1, k) == [i \in 1..k |-> get_rN_fastq(r1, i)]

SiblingRaises(r1, k) == \E i \in 1..k : Siblings(r1, k)[i].tag # "ok"

\* fastq_files = [r1_fastq_file], extended by the siblings
FastqFiles(r1, k) == <<r1>> \o [i \in 1..k |-> Siblings(r1, k)[i].value]

\* the group test with any in place of all
AnyIsFile(fastq_files) == \E i \in DOMAIN fastq_files : IsFile(fastq_files[i])

\* all(fq.is_file() for fq in fastq_files)
AllAreFiles(fastq_files) == \A i \in DOMAIN fastq_files : IsFile(fastq_files[i])

RECURSIVE PathLines(_)
PathLines(paths) ==
    IF paths = <<>> THEN <<>>
    ELSE <<PathLine(Head(paths))>> \o PathLines(Tail(paths))

\* the verbose output of a complete group
GroupedOutput(fastq_files, k) ==
    <<GroupedHeader(k)>> \o PathLines(fastq_files)

\* the verbose output of an incomplete group: one line per member of
\* fastq_files that is a file, each line printing r1_fastq_file
RECURSIVE UngroupedLines(_, _)
UngroupedLines(fastq_files, r1) ==
    IF fastq_files = <<>> THEN <<>>
    ELSE (IF IsFile(Head(fastq_files)) THEN <<PathLine(r1)>> ELSE <<>>)
         \o UngroupedLines(Tail(fastq_files), r1)

UngroupedOutput(fastq_files, r1) ==
    <<UngroupedHeader>> \o UngroupedLines(fastq_files, r1)

\* the filesystems the generator is run on
Root == <<<<"d">>>>
SubDir == Root \o <<<<"s", "u", "b">>>>
ReadFile(directory, prefix, letter, k, extension) ==
    directory \o <<prefix \o <<"_">> \o letter \o IntToStr(k) \o extension>>

FileUniverse ==
    {ReadFile(Root, <<"s">>, <<"R">>, k, EXT_FASTQ) : k \in 1..3}
    \cup {ReadFile(SubDir, <<"t">>, <<>>, 1, EXT_FQ \o EXT_GZ)}

DirectoryUniverse == {Root, SubDir}

RECURSIVE DirectoryLists(_)
DirectoryLists(k) ==
    IF k = 0 THEN {<<>>}
    ELSE DirectoryLists(k - 1)
         \cup {l \o <<d>> : l \in DirectoryLists(k - 1), d \in {Root, SubDir}}

Init ==
    /\ FnIdle
    /\ \E files \in SUBSET FileUniverse :
        fs = [path \in files \cup DirectoryUniverse |->
                 IF path \in files THEN "file" ELSE "dir"]
    /\ directories \in DirectoryLists(MaxDirs) \ {<<>>}
    /\ n \in 1..MaxGroupN
    /\ verbose \in BOOLEAN
    /\ pc = "next_directory"
    /\ dir_idx = 1
    /\ walk = <<>>
    /\ listing = <<>>
    /\ pending = {}
    /\ r1_fastq_file = <<>>
    /\ yielded = <<>>
    /\ stdout = <<>>
    /\ emitted = <<>>
    /\ iterations = 0
    /\ caller_steps = 0

\* the generator is inside the loop over the glob: running, or suspended at
\* the yield, from where the caller's next() lets it run on
InLoop == pc \in {"glob", "yielded"}

\* for directory in directories: find_r1_fastq_files(directory) is created and
\* its glob is about to start at the directory
EnterDirectory ==
    /\ pc = "next_directory"
    /\ dir_idx <= Len(directories)
    /\ walk' = IF IsDir(directories[dir_idx]) THEN <<directories[dir_idx]>>
               ELSE <<>>
    /\ pc' = "walk"
    /\ UNCHANGED <<fs, directories, n, verbose, dir_idx, listing, pending,
                   r1_fastq_file, yielded, stdout, emitted, iterations,
                   caller_steps>>
    /\ UNCHANGED fn_vars

\* the glob reaches its next directory and lists it: the entries are read
\* from the filesystem now, all at once
ListDirectory ==
    /\ pc = "walk"
    /\ walk # <<>>
    /\ listing' = Head(walk)
    /\ pending' = Children(Head(walk))
    /\ walk' = Tail(walk)
    /\ pc' = "glob"
    /\ UNCHANGED <<fs, directories, n, verbose, dir_idx, r1_fastq_file,
                   yielded, stdout, emitted, iterations, caller_steps>>
    /\ UNCHANGED fn_vars

\* find_r1_fastq_files passes over an entry that, now, is no file or has no
\* R1 name
SkipEntry ==
    /\ InLoop
    /\ \E path \in pending :
        /\ ~IsR1FastqFile(path)
        /\ pending' = pending \ {path}
    /\ pc' = "glob"
    /\ UNCHANGED <<fs, directories, n, verbose, dir_idx, walk, listing,
                   r1_fastq_file, yielded, stdout, emitted, iterations,
                   caller_steps>>
    /\ UNCHANGED fn_vars

\* one iteration of the inner loop, on the next entry that, now, is an R1
\* file; after a yield the generator is suspended
VisitR1File ==
    /\ InLoop
    /\ \E path \in pending :
        /\ IsR1FastqFile(path)
        /\ pending' = pending \ {path}
        /\ r1_fastq_file' = path
        /\ iterations' = iterations + 1
        /\ IF SiblingRaises(path, n)
           THEN /\ pc' = "raised"
                /\ emitted' = <<>>
                /\ UNCHANGED <<yielded, stdout>>
           ELSE LET fastq_files == FastqFiles(path, n)
                    output == IF ~verbose THEN <<>>
                              ELSE IF AllAreFiles(fastq_files)
                              THEN GroupedOutput(fastq_files, n)
                              ELSE UngroupedOutput(fastq_files, path)
                IN  /\ emitted' = output
                    /\ stdout' = stdout \o output
                    /\ IF AllAreFiles(fastq_files)
                       THEN /\ yielded' = Append(yielded, fastq_files)
                            /\ pc' = "yielded"
                       ELSE /\ yielded' = yielded
                            /\ pc' = "glob"
    /\ UNCHANGED <<fs, directories, n, verbose, dir_idx, walk, listing,
                   caller_steps>>
    /\ UNCHANGED fn_vars

\* the entries of the listing are used up: the glob reads the directory again
\* for its subdirectories and will go into each, in the order of scandir,
\* before the directories that were waiting
DescendSubdirectories ==
    /\ InLoop
    /\ pending = {}
    /\ \E order \in Orderings(Subdirectories(listing)) :
        walk' = order \o walk
    /\ pc' = "walk"
    /\ UNCHANGED <<fs, directories, n, verbose, dir_idx, listing, pending,
                   r1_fastq_file, yielded, stdout, emitted, iterations,
                   caller_steps>>
    /\ UNCHANGED fn_vars

\* the glob of the current directory is exhausted
LeaveDirectory ==
    /\ pc = "walk"
    /\ walk = <<>>
    /\ dir_idx' = dir_idx + 1
    /\ pc' = "next_directory"
    /\ UNCHANGED <<fs, directories, n, verbose, walk, listing, pending,
                   r1_fastq_file, yielded, stdout, emitted, iterations,
                   caller_steps>>
    /\ UNCHANGED fn_vars

\* the generator is exhausted
Finish ==
    /\ pc = "next_directory"
    /\ dir_idx > Len(directories)
    /\ pc' = "done"
    /\ UNCHANGED <<fs, directories, n, verbose, dir_idx, walk, listing,
                   pending, r1_fastq_file, yielded, stdout, emitted,
                   iterations, caller_steps>>
    /\ UNCHANGED fn_vars

\* while the generator is suspended at the yield, the caller creates a file,
\* as smart_open(path, 'wt') does
CallerCreatesFile ==
    /\ pc = "yielded"
    /\ caller_steps < MaxCallerSteps
    /\ \E path \in FileUniverse \ DOMAIN fs :
        fs' = [q \in DOMAIN fs \cup {path} |->
                  IF q = path THEN "file" ELSE fs[q]]
    /\ caller_steps' = caller_steps + 1
    /\ UNCHANGED <<directories, n, verbose, pc, dir_idx, walk, listing,
                   pending, r1_fastq_file, yielded, stdout, emitted,
                   iterations>>
    /\ UNCHANGED fn_vars

\* while the generator is suspended at the yield, the caller removes a file
CallerRemovesFile ==
    /\ pc = "yielded"
    /\ caller_steps < MaxCallerSteps
    /\ \E path \in {q \in DOMAIN fs : fs[q] = "file"} :
        fs' = [q \in DOMAIN fs \ {path} |-> fs[q]]
    /\ caller_steps' = caller_steps + 1
    /\ UNCHANGED <<directories, n, verbose, pc, dir_idx, walk, listing,
                   pending, r1_fastq_file, yielded, stdout, emitted,
                   iterations>>
    /\ UNCHANGED fn_vars

Next ==
    \/ EnterDirectory
    \/ ListDirectory
    \/ SkipEntry
    \/ VisitR1File
    \/ DescendSubdirectories
    \/ LeaveDirectory
    \/ Finish
    \/ CallerCreatesFile
    \/ CallerRemovesFile

Spec == Init /\ [][Next]_vars

----------------------------------------------------------------------------
(* The filename grammar of the specification, for the properties below *)

IsDigit(c) == c \in {"0", "1", "2", "3", "4", "5", "6", "7", "8", "9"}

EndsWith(s, e) ==
    Len(e) <= Len(s) /\ SubSeq(s, Len(s) - Len(e) + 1, Len(s)) = e

IsLaneBlock(s) ==
    \/ s = <<>>
    \/ /\ Len(s) >= 2
       /\ s[1] = "_"
       /\ \A i \in 2..Len(s) : IsDigit(s[i])

\* name read as prefix, underscore, optional R (rl = 1), one digit, optional
\* lane block, extension e, with nothing left over; the underscore is at p
IsReading(name, p, rl, e) ==
    LET q == p + 1 + rl
        laneEnd == Len(name) - Len(e)
    IN  /\ EndsWith(name, e)
        /\ q <= laneEnd
        /\ name[p] = "_"
        /\ rl = 1 => name[p + 1] = "R"
        /\ IsDigit(name[q])
        /\ IsLaneBlock(SubSeq(name, q + 1, laneEnd))
        /\ \A i \in 1..(p - 1) : name[i] # NEWLINE

Readings(name) ==
    {[prefix |-> SubSeq(name, 1, t[1] - 1),
      letter |-> IF t[2] = 1 THEN <<"R">> ELSE <<>>,
      digit  |-> name[t[1] + 1 + t[2]],
      lane   |-> SubSeq(name, t[1] + 2 + t[2], Len(name) - Len(t[3])),
      ext    |-> t[3]] :
        t \in {u \in (1..Len(name)) \X (0..1) \X Extensions :
                  IsReading(name, u[1], u[2], u[3])}}

\* the readings that make the name an R1 filename
R1Readings(name) == {x \in Readings(name) : x.digit = "1"}

Returns(result, v) == result.tag = "ok" /\ result.value = v
Raises(result, path) == result = ValueError(path)

\* some path get_rN_fastq(r1, i), i in 1..n, is no regular file
Incomplete(r1) ==
    \E i \in 1..n :
        LET r == get_rN_fastq(r1, i)
        IN  r.tag # "ok" \/ ~IsFile(r.value)

\* an existing regular file with an R1 name whose group is whole
IsCompleteR1File(path) ==
    /\ path \in DOMAIN fs
    /\ fs[path] = "file"
    /\ PatternMatch(PathName(path)).found
    /\ ~Incomplete(path)

\* how many of the listed directories path lies below
ListingsAbove(path) ==
    Cardinality({k \in DOMAIN directories : IsUnder(path, directories[k])})

----------------------------------------------------------------------------
(* Properties of find_fastq_files, under Spec *)

\* C1: every yielded group is a sequence of exactly n paths, element i being
\* get_rN_fastq(R1, i): R1 first and once.
C1_GroupIsR1ToRn ==
    \A j \in DOMAIN yielded :
        /\ Len(yielded[j]) = n
        /\ \A i \in 1..n :
            Returns(get_rN_fastq(yielded[j][1], i), yielded[j][i])

\* C2: an iteration on an R1 file with a member of its group missing yields
\* nothing and raises nothing: the loop goes on.
C2_IncompleteGroupNotYielded ==
    [][(iterations' # iterations /\ Incomplete(r1_fastq_file'))
        => (yielded' = yielded /\ pc' = "glob")]_vars

\* an incomplete R1 file was passed over and another R1 file is still to come
C2_Witness ==
    /\ iterations > 0
    /\ Incomplete(r1_fastq_file)
    /\ pc = "glob"
    /\ pending # {}
    /\ n > 1
    /\ caller_steps = 0

\* C3: when the generator is exhausted over a filesystem nobody changed in
\* between, every R1 file with a whole group has been yielded once for each
\* listed directory it lies below, and nothing else has been yielded.
C3_OneGroupPerCompleteR1 ==
    (pc = "done" /\ caller_steps = 0) =>
        /\ \A j \in DOMAIN yielded : yielded[j][1] \in DOMAIN fs
        /\ \A path \in DOMAIN fs :
            Cardinality({j \in DOMAIN yielded : yielded[j][1] = path})
            = IF IsCompleteR1File(path) THEN ListingsAbove(path) ELSE 0

\* a whole group of three below the root and, in the subdirectory, a lone R1
\* file: one group is yielded
C3_Witness ==
    /\ pc = "done"
    /\ caller_steps = 0
    /\ n = 3
    /\ directories = <<Root>>
    /\ Len(yielded) = 1
    /\ \E path \in DOMAIN fs :
        /\ IsUnder(path, SubDir)
        /\ IsR1FastqFile(path)
        /\ Incomplete(path)

\* C10: with verbose on, an iteration on an incomplete R1 file prints the
\* ungrouped header and then one line for each existing member
\* get_rN_fastq(R1, i), the line showing that member's path, each member once.
C10_UngroupedListsExistingMembers ==
    [][(verbose /\ iterations' # iterations /\ Incomplete(r1_fastq_file')) =>
        LET members == {get_rN_fastq(r1_fastq_file', i).value : i \in
                           {i \in 1..n :
                               IsFile(get_rN_fastq(r1_fastq_file', i).value)}}
        IN  /\ Len(emitted') = 1 + Cardinality(members)
            /\ emitted'[1] = UngroupedHeader
            /\ {emitted'[i].path : i \in 2..Len(emitted')} = members
            /\ \A i \in 2..Len(emitted') : emitted'[i].style = ""]_vars

----------------------------------------------------------------------------
(* Properties of the pattern functions, under SpecFn *)

\* C4: on an R1 filename, prefix _ [R] 1 [lane block] extension, get_rN_fastq
\* returns the same path with only the read number replaced by n.
C4_OnlyReadNumberChanges ==
    (fn_op = "get_rN_fastq" /\ R1Readings(PathName(fn_path)) # {}) =>
        \E x \in R1Readings(PathName(fn_path)) :
            Returns(fn_result,
                    WithName(fn_path,
                             x.prefix \o <<"_">> \o x.letter \o IntToStr(fn_n)
                             \o x.lane \o x.ext))

\* C5: on an R1 filename get_sample_id_from_r1 returns exactly the prefix.
C5_SampleIdIsPrefix ==
    (fn_op = "get_sample_id_from_r1" /\ R1Readings(PathName(fn_path)) # {}) =>
        \E x \in R1Readings(PathName(fn_path)) : Returns(fn_result, x.prefix)

\* C6: a filename whose read-number digit, read from the whole name, is not 1
\* is not recognised as an R1 filename.
C6_OtherReadNumberRejected ==
    (/\ fn_op = "match"
     /\ Readings(PathName(fn_path)) # {}
     /\ R1Readings(PathName(fn_path)) = {}) => Returns(fn_result, FALSE)

\* C7: on a filename that is no R1 filename, get_sample_id_from_r1 and
\* get_rN_fastq raise ValueError with the path in the message.
C7_MismatchRaises ==
    (/\ fn_op \in {"get_sample_id_from_r1", "get_rN_fastq"}
     /\ R1Readings(PathName(fn_path)) = {}) => Raises(fn_result, fn_path)

\* C8, as claimed: get_rN_fastq(get_rN_fastq(f, n), 1) returns f for every
\* n >= 1.
C8_RoundTrip ==
    fn_op = "get_rN_fastq_of_result" => Returns(fn_result, fn_path)

\* C8, amended: get_rN_fastq(get_rN_fastq(f, n), 1) returns f when n = 1; for
\* n >= 2 the path g = get_rN_fastq(f, n) differs from f and the second call
\* raises ValueError on g or returns g, never f.
C8_RoundTripForOneOnly ==
    fn_op = "get_rN_fastq_of_result" =>
        /\ fn_n = 1 => Returns(fn_result, fn_path)
        /\ fn_n >= 2 =>
            /\ fn_prev.value # fn_path
            /\ Raises(fn_result, fn_prev.value) \/ fn_result = fn_prev

\* a round trip with n >= 2 that ended in ValueError, from a name with an R
C8_Witness ==
    /\ fn_op = "get_rN_fastq_of_result"
    /\ fn_n >= 2
    /\ PatternMatch(PathName(fn_path)).g2 = <<"R">>
    /\ Raises(fn_result, fn_prev.value)

\* C9: on a path f whose name the pattern accepts, get_rN_fastq(f, 1) returns
\* f itself, and the pattern accepts the name of the result.
C9_ReadNumberOneIsIdentity ==
    (/\ fn_op = "get_rN_fastq"
     /\ fn_n = 1
     /\ PatternMatch(PathName(fn_path)).found) =>
        /\ Returns(fn_result, fn_path)
        /\ PatternMatch(PathName(fn_result.value)).found

\* get_rN_fastq(f, 1) has returned for an accepted name in a directory
C9_Witness ==
    /\ fn_op = "get_rN_fastq"
    /\ fn_n = 1
    /\ PatternMatch(PathName(fn_path)).found
    /\ Len(fn_path) > 1
    /\ fn_result.tag = "ok"

====
